---------------------------- MODULE Spec2Model ----------------------------
(***************************************************************************)
(* MyPrize Streamer Toolkit, API client (src/src/utils/api-client.js):     *)
(* the request pipeline with its response cache, its rate limiter and its  *)
(* retry loop, and the event bus on which it reports what it does.         *)
(*                                                                         *)
(* Time is a counter of ticks, `now`, read wherever the code reads         *)
(* Date.now().  The durations of the code, all in milliseconds, are scaled *)
(* down so that they fit in a few ticks: FiveMinutes, Second and the       *)
(* defaults of the configuration keep their names and their roles, not     *)
(* their magnitudes.                                                       *)
(*                                                                         *)
(* One step of the model is one run-to-completion turn of the event loop:  *)
(* a call of a public function up to its first await, or the continuation  *)
(* of a request() after one of its awaits (fetch, response.json(), sleep). *)
(***************************************************************************)
EXTENDS Integers, Sequences, FiniteSets, TLC

VARIABLES
    now,             \* Date.now()
    config,          \* the `config` object
    cache,           \* the `cache` Map: cache key -> {data, expires}, or NoEntry
    rateLimitState,  \* the `rateLimitState` object
    calls,           \* the request() invocations, one record per slot
    listeners,       \* the `listeners` object: topic -> its Set, in insertion order
    unsubscribers,   \* the functions on() has returned to its callers
    statusResult,    \* what getRateLimitStatus() returned, while nothing happened since
    admitLog,        \* history: the times of the admissions of the trailing window
    serverRemaining, \* history: the latest X-RateLimit-Remaining of the current window
    cleared,         \* history: the signatures not requested since the latest clearCache()
    delivery,        \* history: how the callbacks ran in the emitEvent() of the latest turn
    retryAt,         \* history: when the retryAfter of the latest rejection ends, while no
                     \* request() has been made since and that time has not passed
    widgets,         \* widgets.js: a StatCard and a BigWins instance
    roomSelector     \* room-selector.js: the state of the RoomSelector module

\* The state of the API client, and the state of the components.
apiVars == <<now, config, cache, rateLimitState, calls, listeners, unsubscribers,
             statusResult, admitLog, serverRemaining, cleared, delivery, retryAt>>
uiVars == <<widgets, roomSelector>>

vars == <<apiVars, uiVars>>

---------------------------------------------------------------------------
\* Bounds of the model.

\* The clock stops here.
MaxTime == 3
\* The largest `retries` option a caller passes.
MaxRetries == 2
\* The ceiling config.rateLimitPerFiveMinutes the client runs with.
RateLimitCeiling == 1
\* The number of on() calls in a behaviour.
MaxSubscriptions == 2
\* The number of selectRoomBySlug() calls.
MaxLookups == 2

---------------------------------------------------------------------------
\* Constants of the program (durations in ticks).

\* fiveMinutes = 5 * 60 * 1000
FiveMinutes == 2
\* the factor 1000 that turns the seconds of Retry-After into milliseconds
Second == 2
\* config.timeout
DefaultTimeout == 2
\* config.retryDelay
DefaultRetryDelay == 1
\* config.cacheDuration
DefaultCacheDuration == 1

\* JavaScript's null (a cache miss, an absent header, an absent field)
Null == "<null>"
\* JavaScript's undefined (lastError when the retry loop never ran)
Undefined == "<undefined>"
\* parseInt of a string that does not start with a number
NaN == -1
\* an empty slot of the cache Map
NoEntry == [data |-> Null, expires |-> -1]
\* no getRateLimitStatus() result is at hand
NoStatus == [remaining |-> -1, limit |-> -1, used |-> -1, resetsIn |-> -1]
\* a response body that is not JSON
Unparseable == "<not json>"

\* The slots for request() invocations, and the slot of a caller that awaits
\* each request() before it issues the next one.
Calls == {1, 2}
Awaited == {1}
Methods == {"GET", "POST"}
Endpoints == {"/rooms"}
\* The `method` and `cache` options callers pass: the default GET, a GET with
\* cache: false (system.health), and another method with the default cache option.
RequestOptions ==
    {[method |-> "GET", cache |-> TRUE],
     [method |-> "GET", cache |-> FALSE],
     [method |-> "POST", cache |-> TRUE]}
\* Parsed 2xx bodies: an object, and the number 0 (a falsy JSON value).
JsonValues == {"{...}", "0"}
\* What attempts end with, beside an HTTP status: the fetch was aborted by the
\* timer of the attempt, or it failed in the transport.
Aborted == -1
TransportFailed == 0
\* No attempt has ended yet.
NoOutcome == -2
Statuses == {200, 404, 429, 503}
\* Values of the Retry-After and X-RateLimit-Remaining headers.
RetryAfterHeaders == {Null, "0", "1"}
RemainingHeaders == {Null, "1"}
\* No X-RateLimit-Remaining has arrived since the window was last reset.
NoServerValue == -1
\* No rejection is waiting for its retryAfter to end.
NoRetry == -1
\* The `code` field of an error body (Null: no such field, or no JSON body).
BodyCodes == {Null, "E_CUSTOM", "ECONNRESET"}

\* The keys of the `listeners` object.
Topics == {"request", "rateLimit", "error"}
\* The callbacks the application subscribes, and those of them that throw.
Callbacks == {"onEvent", "onEventThrowing"}
ThrowingCallbacks == {"onEventThrowing"}
\* No function returned by on() is held in this slot.
NoUnsubscriber == [event |-> Null, callback |-> Null, called |-> FALSE]
\* emitEvent() with no callback to run; also: no emitEvent() in the turn.
NoDelivery == [invoked |-> <<>>, caught |-> 0, thrown |-> FALSE]
\* The code of an error thrown by a callback, for the caller that would get it.
ListenerError == "<listener error>"

---------------------------------------------------------------------------
\* Pure helpers.

\* parseInt(s, 10) on the header strings of the model
ParseInt(s) ==
    CASE s = "0" -> 0
      [] s = "1" -> 1
      [] s = "2" -> 2
      [] s = "5" -> 5
      [] OTHER -> NaN

\* JavaScript truthiness of a parsed JSON value or of null ("0" is the number 0)
Truthy(v) == v \notin {Null, "0", "false", ""}

\* `header || fallback` on a header string: only null and "" are falsy
OrDefault(header, fallback) ==
    IF header = Null \/ header = "" THEN fallback ELSE header

\* `${method}:${url}` with url = buildUrl(endpoint, params)
CacheKey(method, url) == method \o ":" \o url

CacheKeys == {CacheKey(m, u) : m \in Methods, u \in Endpoints}

\* response.ok
ResponseOk(status) == status >= 200 /\ status <= 299

\* `HTTP_${response.status}`
HttpCode(status) == "HTTP_" \o ToString(status)

\* parseError: the error built from a non-2xx response
ParseError(status, bodyCode) ==
    [name |-> "Error",
     code |-> IF bodyCode # Null THEN bodyCode ELSE HttpCode(status),
     status |-> status]

\* A faulty variant of IsRetryableError: every error status counts as transient.
IsRetryableErrorAnyStatus(error) ==
    \/ error.code \in {"ECONNRESET", "ETIMEDOUT", "ENOTFOUND"}
    \/ (error.status # 0 /\ error.status >= 400)

\* isRetryableError
IsRetryableError(error) ==
    \/ error.code = "ECONNRESET"
    \/ error.code = "ETIMEDOUT"
    \/ error.code = "ENOTFOUND"
    \/ error.status = 429
    \/ (error.status # 0 /\ error.status >= 500)

\* What fetch() rejects with, other than an abort (status 0: no status field).
TransportErrors ==
    {[name |-> "Error", code |-> "ECONNRESET", status |-> 0],
     [name |-> "TypeError", code |-> Null, status |-> 0]}

AbortError == [name |-> "AbortError", code |-> Null, status |-> 0]
SyntaxError == [name |-> "SyntaxError", code |-> Null, status |-> 0]

---------------------------------------------------------------------------
\* The rate limiter.

\* checkRateLimit: whether the window is reset
WindowElapsed(rl, t) == t - rl.windowStart > FiveMinutes

\* checkRateLimit: the state it leaves
CheckRateLimitState(rl, t, cfg) ==
    LET r1 == IF WindowElapsed(rl, t)
              THEN [requests |-> <<>>, windowStart |-> t,
                    remaining |-> cfg.rateLimitPerFiveMinutes]
              ELSE rl
        keep(ts) == t - ts < FiveMinutes
    IN [r1 EXCEPT !.requests = SelectSeq(r1.requests, keep)]

\* The server's value is known until checkRateLimit resets the window.
ServerValueAfter(rl, t, value) == IF WindowElapsed(rl, t) THEN NoServerValue ELSE value

\* A faulty variant of CheckRateLimit: a count equal to the ceiling is admitted.
CheckRateLimitInclusive(rl, cfg) == Len(rl.requests) <= cfg.rateLimitPerFiveMinutes

\* A faulty variant of CheckRateLimit: an admission is recorded when its fetch
\* has resolved, so the admissions of the calls still awaiting are not counted.
CheckRateLimitBeforeRecording(rl, cfg) ==
    Len(rl.requests) - Cardinality({c \in DOMAIN calls : calls[c].pc = "fetch"})
        < cfg.rateLimitPerFiveMinutes

\* checkRateLimit: the value it returns, on the state it leaves
CheckRateLimit(rl, cfg) == Len(rl.requests) < cfg.rateLimitPerFiveMinutes

\* A faulty variant of TrackRequest: the timestamp is recorded twice.
TrackRequestTwice(rl, t, cfg) ==
    [rl EXCEPT !.requests = Append(Append(@, t), t),
               !.remaining = cfg.rateLimitPerFiveMinutes - (Len(rl.requests) + 2)]

\* trackRequest
TrackRequest(rl, t, cfg) ==
    [rl EXCEPT !.requests = Append(@, t),
               !.remaining = cfg.rateLimitPerFiveMinutes - (Len(rl.requests) + 1)]

\* A faulty variant of GetTimeUntilRateLimitReset: the time elapsed, not the time left.
GetTimeElapsedInWindow(rl, t) == t - rl.windowStart

\* getTimeUntilRateLimitReset
GetTimeUntilRateLimitReset(rl, t) ==
    LET d == FiveMinutes - (t - rl.windowStart) IN IF d > 0 THEN d ELSE 0

\* A faulty variant of GetRateLimitStatusState: the status read is tracked as a request.
GetRateLimitStatusStateTracking(rl, t, cfg) ==
    TrackRequest(CheckRateLimitState(rl, t, cfg), t, cfg)

\* getRateLimitStatus: the state it leaves
GetRateLimitStatusState(rl, t, cfg) == CheckRateLimitState(rl, t, cfg)

\* getRateLimitStatus: the object it returns (percentage is used * 100 / limit)
GetRateLimitStatusResult(rl, t, cfg) ==
    LET r1 == GetRateLimitStatusState(rl, t, cfg) IN
    [remaining |-> r1.remaining,
     limit |-> cfg.rateLimitPerFiveMinutes,
     used |-> cfg.rateLimitPerFiveMinutes - r1.remaining,
     resetsIn |-> GetTimeUntilRateLimitReset(r1, t)]

---------------------------------------------------------------------------
\* The response cache.

\* A faulty variant of CacheExpired: the comparison is off by one tick.
CacheExpiredLate(item, t) == t > item.expires + 1

\* getFromCache: the entry is past its expiry
CacheExpired(item, t) == t > item.expires

\* getFromCache: the value it returns
GetFromCache(c, key, t) ==
    IF c[key] = NoEntry THEN Null
    ELSE IF CacheExpired(c[key], t) THEN Null
    ELSE c[key].data

\* getFromCache: the Map it leaves (an expired entry is deleted)
GetFromCacheState(c, key, t) ==
    IF c[key] # NoEntry /\ CacheExpired(c[key], t)
    THEN [c EXCEPT ![key] = NoEntry]
    ELSE c

\* A faulty variant of SetCache: the entry holds the raw response, not the parsed body.
SetCacheUnparsed(c, key, data, duration, t) ==
    [c EXCEPT ![key] = [data |-> Unparseable, expires |-> t + duration]]

\* setCache
SetCache(c, key, data, duration, t) ==
    [c EXCEPT ![key] = [data |-> data, expires |-> t + duration]]

\* A faulty variant of UsesCache: the method is not looked at.
UsesCacheAnyMethod(useCache, method) == useCache

\* request: `if (useCache && method === 'GET')`, before the lookup and the store
UsesCache(useCache, method) == useCache /\ method = "GET"

\* request: `if (cached)`, the lookup counts as a hit
CacheHit(cached) == Truthy(cached)

---------------------------------------------------------------------------
\* The event bus.

\* Set.prototype.add / delete on a Set kept in insertion order
SetAdd(set, x) ==
    IF \E i \in 1 .. Len(set) : set[i] = x THEN set ELSE Append(set, x)
SetDelete(set, x) == SelectSeq(set, LAMBDA y : y # x)

\* A faulty variant of CatchListenerError: the error of the callback is not caught.
ListenerErrorUncaught(run) == [run EXCEPT !.thrown = TRUE]

\* emitEvent: `catch (e) { console.error(...) }` around one callback
CatchListenerError(run) == [run EXCEPT !.caught = @ + 1]

\* emitEvent: listeners[event].forEach(callback => { try { callback(data) } ... })
RECURSIVE ForEach(_, _)
ForEach(set, run) ==
    IF set = <<>> \/ run.thrown THEN run
    ELSE LET callback == Head(set)
             called == [run EXCEPT !.invoked = Append(@, callback)]
         IN ForEach(Tail(set),
                    IF callback \in ThrowingCallbacks
                    THEN CatchListenerError(called) ELSE called)

\* emitEvent(event, data): the callbacks it runs
EmitEventRun(ls, event) == ForEach(ls[event], NoDelivery)

\* The topic an event of a call is emitted on.
TopicOf(event) == IF event = "request:cached" THEN "request" ELSE event

---------------------------------------------------------------------------
\* One request() invocation.

IdleCall ==
    [pc |-> "idle", method |-> "GET", url |-> "/rooms", useCache |-> FALSE,
     cacheDuration |-> 0, timeout |-> 0, retries |-> 0,
     attempt |-> 0, timer |-> -1, status |-> 0, retryAfter |-> Null,
     body |-> Null, value |-> Null, errCode |-> Null, errRetryAfter |-> -1,
     netCalls |-> 0, lastOutcome |-> NoOutcome, only5xx |-> TRUE,
     lastDelay |-> -1, events |-> <<>>]

\* The history of a call: how its latest attempt ended, and whether every
\* attempt so far ended with a 5xx response.
Ended(cl, outcome) ==
    [cl EXCEPT !.lastOutcome = outcome,
               !.only5xx = @ /\ outcome >= 500]

Settled == {"returned", "threw"}

\* emitEvent, as seen by the observers of this call
EmitEvent(cl, event) == [cl EXCEPT !.events = Append(@, event)]

\* request: `return data` / `return cached`
Return(cl, data) ==
    [cl EXCEPT !.pc = "returned", !.value = data, !.timer = -1,
               !.status = 0, !.retryAfter = Null, !.body = Null]

\* request: the end of the function, emitEvent('error', ...); throw lastError
ThrowLastError(cl, code) ==
    [EmitEvent(cl, "error") EXCEPT !.pc = "threw", !.errCode = code,
                                   !.timer = -1, !.status = 0,
                                   !.retryAfter = Null, !.body = Null]

\* sleep(ms), awaited inside the retry loop
Sleep(cl, ms, t) ==
    [cl EXCEPT !.pc = "sleep", !.timer = t + ms, !.lastDelay = ms,
               !.status = 0, !.retryAfter = Null, !.body = Null]

\* request: one turn of the loop up to `await fetch(...)`
StartAttempt(cl, attempt, t) ==
    [EmitEvent(cl, "request") EXCEPT !.pc = "fetch", !.attempt = attempt,
                                     !.timer = t + cl.timeout,
                                     !.netCalls = @ + 1]

\* A faulty variant of Catch: an aborted attempt is retried like a transport failure.
CatchRetryingAbort(cl, err, t, cfg) ==
    IF cl.attempt < cl.retries /\ (IsRetryableError(err) \/ err.name = "AbortError")
    THEN Sleep(cl, cfg.retryDelay * cl.attempt, t)
    ELSE ThrowLastError(cl, IF err.name = "AbortError" THEN "TIMEOUT" ELSE err.code)

\* request: the catch block
Catch(cl, err, t, cfg) ==
    IF err.name = "AbortError" THEN ThrowLastError(cl, "TIMEOUT")
    ELSE IF cl.attempt < cl.retries /\ IsRetryableError(err)
    THEN Sleep(cl, cfg.retryDelay * cl.attempt, t)
    ELSE ThrowLastError(cl, err.code)

\* A faulty variant of RetriedStatus: a 429 or 5xx response is retried whatever
\* the number of attempts made.
RetriedStatusUnbounded(cl) == cl.status = 429 \/ cl.status >= 500

\* A faulty variant of RetriedStatus: the attempt count is compared with <=.
RetriedStatusOffByOne(cl) ==
    (cl.status = 429 \/ cl.status >= 500) /\ cl.attempt <= cl.retries

\* request: a non-2xx response is retried inside the try block
RetriedStatus(cl) ==
    (cl.status = 429 \/ cl.status >= 500) /\ cl.attempt < cl.retries

\* A faulty variant of RetryDelay: the seconds of Retry-After are used as milliseconds.
RetryDelayUnconverted(cl, cfg) ==
    IF cl.status = 429
    THEN ParseInt(OrDefault(cl.retryAfter, "5"))
    ELSE cfg.retryDelay * cl.attempt

\* request: the delay before the retry of a 429 or 5xx response
RetryDelay(cl, cfg) ==
    IF cl.status = 429
    THEN ParseInt(OrDefault(cl.retryAfter, "5")) * Second
    ELSE cfg.retryDelay * cl.attempt

\* request: `if (!response.ok)`, once parseError has read the body
HandleErrorResponse(cl, t, cfg) ==
    IF RetriedStatus(cl)
    THEN Sleep(cl, RetryDelay(cl, cfg), t)
    ELSE Catch(cl, ParseError(cl.status, cl.body), t, cfg)

\* The bodies a response of this status may carry: JSON or not for a 2xx, and
\* for an error its `code` field (Null: no such field, or no JSON at all).
BodiesOf(status) ==
    IF ResponseOk(status) THEN JsonValues \cup {Unparseable} ELSE BodyCodes

\* The emitEvent() of a turn of request(): the callbacks run for the event the
\* turn has added to the events of the call, if it has added one.
Dispatch(ls, old, new) ==
    IF Len(new.events) = Len(old.events) + 1
    THEN EmitEventRun(ls, TopicOf(new.events[Len(new.events)]))
    ELSE NoDelivery

\* An exception that leaves emitEvent() would end request() with that exception.
Propagate(cl, run) ==
    IF run.thrown
    THEN [cl EXCEPT !.pc = "threw", !.errCode = ListenerError, !.timer = -1,
                    !.status = 0, !.retryAfter = Null, !.body = Null]
    ELSE cl

\* A turn of the request() in slot c that leaves the call as `new`.
Turn(c, new) ==
    LET run == Dispatch(listeners, calls[c], new) IN
    /\ calls' = [calls EXCEPT ![c] = Propagate(new, run)]
    /\ delivery' = run

---------------------------------------------------------------------------
\* The widgets (components/widgets.js).

\* What a StatCard's fetchFn resolves with (a plain number), and what
\* MyPrizeAPI.bets.getBig resolves with (an array of bets).
StatValues == {1, 2}
WinLists == {<<>>, <<"bet-1">>}
\* The widgets the page has created.
WidgetNames == {"statCard", "bigWins"}
\* `this.data?.value` while this.data is null
NoValue == -1
\* An error object caught by refresh().
RefreshError == "<error>"

\* Widget constructor: the fields of a new StatCard / BigWins.  (fetching and
\* lastRefresh are history: the fetches in flight, and what the latest call of
\* refresh() did.)
NewStatCard ==
    [isLoading |-> FALSE, hasError |-> FALSE,
     data |-> [value |-> NoValue, previousValue |-> NoValue],
     fetching |-> 0, lastRefresh |-> "none"]
NewBigWins ==
    [isLoading |-> FALSE, hasError |-> FALSE, previousWins |-> <<>>,
     fetching |-> 0, lastRefresh |-> "none"]

\* Widget.setLoading, Widget.setError
SetLoading(w, isLoading) == [w EXCEPT !.isLoading = isLoading]
SetError(w, error) == [w EXCEPT !.hasError = (error # Null)]

\* refresh(): `if (this.isLoading) return;`
RefreshSkipped(w) == [w EXCEPT !.lastRefresh = "skipped"]

\* refresh(): setLoading(true) and the try block up to the await of the fetch
RefreshStart(w) ==
    [SetLoading(w, TRUE) EXCEPT !.fetching = @ + 1, !.lastRefresh = "fetched"]

\* StatCard.refresh(): the rest of the try block, then the finally block
StatCardFetched(w, result) ==
    SetLoading(SetError([w EXCEPT !.data = [value |-> result,
                                           previousValue |-> w.data.value],
                                  !.fetching = @ - 1], Null), FALSE)

\* BigWins.refresh(): the rest of the try block, then the finally block
BigWinsFetched(w, wins) ==
    SetLoading(SetError([w EXCEPT !.previousWins = wins,
                                  !.fetching = @ - 1], Null), FALSE)

\* A faulty variant of RefreshFailed: the loading flag is cleared in the try block only.
RefreshFailedStillLoading(w, error) ==
    SetError([w EXCEPT !.fetching = @ - 1], error)

\* refresh(): the catch block, then the finally block
RefreshFailed(w, error) ==
    SetLoading(SetError([w EXCEPT !.fetching = @ - 1], error), FALSE)

---------------------------------------------------------------------------
\* The room selector (components/room-selector.js).

\* The slugs callers pass to selectRoomBySlug, and slug.toLowerCase().trim()
SlugInputs == {"alpha", " Beta"}
NormalizeSlug(slug) ==
    CASE slug = "alpha" -> "alpha"
      [] slug = " Beta" -> "beta"
      [] OTHER -> slug

\* No room has been passed to the subscriber yet.
NotDelivered == "<not delivered>"
\* No selectRoomBySlug() and no clearRoom() has been called yet.
NoAction == [kind |-> "none", lookup |-> 0]

\* The module state at load: currentRoom (by its slug), the entry of
\* localStorage, the `room` URL parameter, the disabled input, the error line
\* and the listeners Set (one subscriber).  History: the lookups issued, in
\* order, with their state; the latest user action; the latest room passed to
\* the subscriber.
NewRoomSelector ==
    [currentRoom |-> Null, stored |-> Null, urlParam |-> Null,
     inputDisabled |-> FALSE, errorShown |-> FALSE, subscribed |-> FALSE,
     lookups |-> <<>>, lastAction |-> NoAction, delivered |-> NotDelivered]

\* notifyListeners
NotifyListeners(rs) ==
    IF rs.subscribed THEN [rs EXCEPT !.delivered = rs.currentRoom] ELSE rs

\* selectRoomBySlug: up to `await MyPrizeAPI.rooms.getBySlug(normalizedSlug)`
LookupStart(rs, slug) ==
    [rs EXCEPT !.inputDisabled = TRUE, !.errorShown = FALSE,
               !.lookups = Append(@, [slug |-> NormalizeSlug(slug), state |-> "pending"]),
               !.lastAction = [kind |-> "select", lookup |-> Len(rs.lookups) + 1]]

\* selectRoomBySlug: the rest of the try block, then the finally block
LookupFound(rs, i) ==
    LET slug == rs.lookups[i].slug IN
    [NotifyListeners([rs EXCEPT !.currentRoom = slug, !.stored = slug,
                                !.urlParam = slug])
        EXCEPT !.inputDisabled = FALSE, !.lookups[i].state = "found"]

\* selectRoomBySlug: the catch block, then the finally block
LookupFailed(rs, i) ==
    [rs EXCEPT !.errorShown = TRUE, !.inputDisabled = FALSE,
               !.lookups[i].state = "failed"]

\* clearRoom
ClearedRoom(rs) ==
    [NotifyListeners([rs EXCEPT !.currentRoom = Null, !.stored = Null,
                                !.urlParam = Null])
        EXCEPT !.lastAction = [kind |-> "clear", lookup |-> 0]]

\* subscribe
SubscribedTo(rs) ==
    [rs EXCEPT !.subscribed = TRUE,
               !.delivered = IF rs.currentRoom # Null THEN rs.currentRoom ELSE @]

---------------------------------------------------------------------------
Init ==
    /\ now = 0
    /\ config = [retryDelay |-> DefaultRetryDelay,
                 rateLimitPerFiveMinutes |-> RateLimitCeiling]
    /\ cache = [k \in CacheKeys |-> NoEntry]
    /\ rateLimitState = [requests |-> <<>>, windowStart |-> 0,
                         remaining |-> RateLimitCeiling]
    /\ calls = [c \in Calls |-> IdleCall]
    /\ listeners = [t \in Topics |-> <<>>]
    /\ unsubscribers = [h \in 1 .. MaxSubscriptions |-> NoUnsubscriber]
    /\ statusResult = NoStatus
    /\ admitLog = <<>>
    /\ serverRemaining = NoServerValue
    /\ cleared = {}
    /\ delivery = NoDelivery
    /\ retryAt = NoRetry
    /\ widgets = [statCard |-> RefreshStart(NewStatCard),
                  bigWins |-> RefreshStart(NewBigWins)]
    /\ roomSelector = NewRoomSelector

\* Time passes.  The abort timer of a pending fetch fires when it is due, so the
\* clock does not move past it.
Tick ==
    /\ now < MaxTime
    /\ \A c \in Calls : calls[c].pc = "fetch" => now < calls[c].timer
    /\ now' = now + 1
    /\ admitLog' = SelectSeq(admitLog, LAMBDA ts : (now + 1) - ts < FiveMinutes)
    /\ statusResult' = NoStatus
    /\ delivery' = NoDelivery
    /\ retryAt' = IF retryAt >= now + 1 THEN retryAt ELSE NoRetry
    /\ UNCHANGED <<uiVars, config, cache, rateLimitState, calls, listeners,
                   unsubscribers, serverRemaining, cleared>>

\* request(endpoint, options), up to its first await, return or throw.
Request(c, method, url, useCache, retries) ==
    /\ calls[c].pc = "idle"
    /\ LET key == CacheKey(method, url)
           lookup == UsesCache(useCache, method)
           cached == IF lookup THEN GetFromCache(cache, key, now) ELSE Null
           cache1 == IF lookup THEN GetFromCacheState(cache, key, now) ELSE cache
           cl == [IdleCall EXCEPT !.method = method, !.url = url,
                                  !.useCache = useCache, !.retries = retries,
                                  !.cacheDuration = DefaultCacheDuration,
                                  !.timeout = DefaultTimeout]
           rl1 == CheckRateLimitState(rateLimitState, now, config)
           rl2 == TrackRequest(rl1, now, config)
       IN IF lookup /\ CacheHit(cached)
          THEN /\ Turn(c, Return(EmitEvent(cl, "request:cached"), cached))
               /\ cache' = cache1
               /\ retryAt' = NoRetry
               /\ UNCHANGED <<rateLimitState, admitLog, serverRemaining>>
          ELSE IF ~CheckRateLimit(rl1, config)
          THEN /\ Turn(c, [EmitEvent(cl, "rateLimit") EXCEPT
                        !.pc = "threw", !.errCode = "RATE_LIMIT_EXCEEDED",
                        !.errRetryAfter = GetTimeUntilRateLimitReset(rl1, now)])
               /\ cache' = cache1
               /\ rateLimitState' = rl1
               /\ serverRemaining' = ServerValueAfter(rateLimitState, now, serverRemaining)
               /\ retryAt' = now + GetTimeUntilRateLimitReset(rl1, now)
               /\ UNCHANGED admitLog
          ELSE /\ Turn(c, IF 1 <= retries THEN StartAttempt(cl, 1, now)
                            ELSE ThrowLastError(cl, Undefined))
               /\ cache' = cache1
               /\ rateLimitState' = rl2
               /\ serverRemaining' = ServerValueAfter(rateLimitState, now, serverRemaining)
               /\ admitLog' = Append(admitLog, now)
               /\ retryAt' = NoRetry
    /\ statusResult' = NoStatus
    /\ cleared' = IF UsesCache(useCache, method)
                  THEN cleared \ {CacheKey(method, url)} ELSE cleared
    /\ UNCHANGED <<uiVars, now, config, listeners, unsubscribers>>

\* `await fetch(...)` resolves with a response: clearTimeout, then the
\* X-RateLimit-Remaining header, up to the await of the body.
FetchRespond(c, status, remaining, retryAfter, body) ==
    /\ calls[c].pc = "fetch"
    /\ retryAfter # Null => status = 429
    /\ body \in BodiesOf(status)
    /\ LET cl == [Ended(calls[c], status) EXCEPT
                    !.pc = IF ResponseOk(status) THEN "body" ELSE "errbody",
                    !.timer = -1, !.status = status,
                    !.retryAfter = retryAfter, !.body = body]
       IN IF remaining # Null
          THEN /\ rateLimitState' = [rateLimitState EXCEPT !.remaining = ParseInt(remaining)]
               /\ serverRemaining' = ParseInt(remaining)
               /\ Turn(c, EmitEvent(cl, "rateLimit"))
          ELSE /\ UNCHANGED <<rateLimitState, serverRemaining>>
               /\ Turn(c, cl)
    /\ statusResult' = NoStatus
    /\ UNCHANGED <<uiVars, now, retryAt, config, cache, listeners, unsubscribers, admitLog, cleared>>

\* `await fetch(...)` rejects: the transport failed.
FetchFail(c, err) ==
    /\ calls[c].pc = "fetch"
    /\ Turn(c, Catch(Ended(calls[c], TransportFailed), err, now, config))
    /\ statusResult' = NoStatus
    /\ UNCHANGED <<uiVars, now, retryAt, config, cache, rateLimitState, listeners, unsubscribers,
                   admitLog, serverRemaining, cleared>>

\* The timer of the attempt fires, controller.abort(): fetch rejects with AbortError.
FetchAbort(c) ==
    /\ calls[c].pc = "fetch"
    /\ now >= calls[c].timer
    /\ Turn(c, Catch(Ended(calls[c], Aborted), AbortError, now, config))
    /\ statusResult' = NoStatus
    /\ UNCHANGED <<uiVars, now, retryAt, config, cache, rateLimitState, listeners, unsubscribers,
                   admitLog, serverRemaining, cleared>>

\* parseError's `await response.json()` settles on a non-2xx response.
ErrorBody(c) ==
    /\ calls[c].pc = "errbody"
    /\ Turn(c, HandleErrorResponse(calls[c], now, config))
    /\ statusResult' = NoStatus
    /\ UNCHANGED <<uiVars, now, retryAt, config, cache, rateLimitState, listeners, unsubscribers,
                   admitLog, serverRemaining, cleared>>

\* `await response.json()` settles on a 2xx response.
Body(c) ==
    /\ calls[c].pc = "body"
    /\ LET cl == calls[c] IN
       IF cl.body = Unparseable
       THEN /\ Turn(c, Catch(cl, SyntaxError, now, config))
            /\ UNCHANGED cache
       ELSE /\ Turn(c, Return(cl, cl.body))
            /\ cache' = IF UsesCache(cl.useCache, cl.method)
                        THEN SetCache(cache, CacheKey(cl.method, cl.url), cl.body,
                                      cl.cacheDuration, now)
                        ELSE cache
    /\ statusResult' = NoStatus
    /\ UNCHANGED <<uiVars, now, retryAt, config, rateLimitState, listeners, unsubscribers,
                   admitLog, serverRemaining, cleared>>

\* `await sleep(delay)` is over: `continue`, the next attempt.
Wake(c) ==
    /\ calls[c].pc = "sleep"
    /\ now >= calls[c].timer
    /\ Turn(c, StartAttempt(calls[c], calls[c].attempt + 1, now))
    /\ statusResult' = NoStatus
    /\ UNCHANGED <<uiVars, now, retryAt, config, cache, rateLimitState, listeners, unsubscribers,
                   admitLog, serverRemaining, cleared>>

\* The caller has taken the result of a settled request(): the slot is free.
Release(c) ==
    /\ calls[c].pc \in Settled
    /\ calls' = [calls EXCEPT ![c] = IdleCall]
    /\ statusResult' = NoStatus
    /\ delivery' = NoDelivery
    /\ UNCHANGED <<uiVars, now, retryAt, config, cache, rateLimitState, listeners, unsubscribers,
                   admitLog, serverRemaining, cleared>>

\* getRateLimitStatus()
GetRateLimitStatus ==
    /\ rateLimitState' = GetRateLimitStatusState(rateLimitState, now, config)
    /\ statusResult' = GetRateLimitStatusResult(rateLimitState, now, config)
    /\ serverRemaining' = ServerValueAfter(rateLimitState, now, serverRemaining)
    /\ delivery' = NoDelivery
    /\ UNCHANGED <<uiVars, now, retryAt, config, cache, calls, listeners, unsubscribers, admitLog, cleared>>

\* clearCache()
ClearCache ==
    /\ cache' = [k \in CacheKeys |-> NoEntry]
    /\ cleared' = {CacheKey("GET", u) : u \in Endpoints}
    /\ statusResult' = NoStatus
    /\ delivery' = NoDelivery
    /\ UNCHANGED <<uiVars, now, retryAt, config, rateLimitState, calls, listeners, unsubscribers,
                   admitLog, serverRemaining>>

\* configure(options): Object.assign(config, options)
Configure(options) ==
    /\ config' = [k \in DOMAIN config |->
                    IF k \in DOMAIN options THEN options[k] ELSE config[k]]
    /\ statusResult' = NoStatus
    /\ delivery' = NoDelivery
    /\ UNCHANGED <<uiVars, now, retryAt, cache, rateLimitState, calls, listeners, unsubscribers,
                   admitLog, serverRemaining, cleared>>

\* on(event, callback): the callback joins the Set of the topic, and the caller
\* gets a function that removes it.
On(h, event, callback) ==
    /\ unsubscribers[h] = NoUnsubscriber
    /\ \A g \in 1 .. h - 1 : unsubscribers[g] # NoUnsubscriber
    /\ listeners' = [listeners EXCEPT ![event] = SetAdd(@, callback)]
    /\ unsubscribers' = [unsubscribers EXCEPT ![h] =
            [event |-> event, callback |-> callback, called |-> FALSE]]
    /\ statusResult' = NoStatus
    /\ delivery' = NoDelivery
    /\ UNCHANGED <<uiVars, now, retryAt, config, cache, rateLimitState, calls, admitLog, serverRemaining, cleared>>

\* A caller calls, once, the function on() returned to it:
\* () => listeners[event].delete(callback)
Unsubscribe(h) ==
    /\ unsubscribers[h] # NoUnsubscriber
    /\ ~unsubscribers[h].called
    /\ listeners' = [listeners EXCEPT ![unsubscribers[h].event] =
            SetDelete(@, unsubscribers[h].callback)]
    /\ unsubscribers' = [unsubscribers EXCEPT ![h].called = TRUE]
    /\ statusResult' = NoStatus
    /\ delivery' = NoDelivery
    /\ UNCHANGED <<uiVars, now, retryAt, config, cache, rateLimitState, calls, admitLog, serverRemaining, cleared>>

Next ==
    \/ Tick
    \/ \E c \in Awaited, o \in RequestOptions, u \in Endpoints, r \in 0 .. MaxRetries :
          Request(c, o.method, u, o.cache, r)
    \/ \E c \in Awaited, s \in Statuses, rem \in RemainingHeaders,
          ra \in RetryAfterHeaders, b \in JsonValues \cup {Unparseable} \cup BodyCodes :
          FetchRespond(c, s, rem, ra, b)
    \/ \E c \in Awaited, e \in TransportErrors : FetchFail(c, e)
    \/ \E c \in Awaited : FetchAbort(c)
    \/ \E c \in Awaited : ErrorBody(c)
    \/ \E c \in Awaited : Body(c)
    \/ \E c \in Awaited : Wake(c)
    \/ \E c \in Awaited : Release(c)
    \/ GetRateLimitStatus

Spec == Init /\ [][Next]_vars

\* The client of an application that also empties the cache, at any time.
NextClearCache ==
    \/ Next
    \/ ClearCache

SpecClearCache == Init /\ [][NextClearCache]_vars

\* The retry loop of request(): calls that do not use the cache, answered by a
\* server that sends no X-RateLimit-Remaining header.
NextLive ==
    \/ Tick
    \/ \E c \in Awaited, u \in Endpoints, r \in 0 .. MaxRetries :
          Request(c, "GET", u, FALSE, r)
    \/ \E c \in Awaited, s \in Statuses, ra \in RetryAfterHeaders,
          b \in JsonValues \cup {Unparseable} \cup BodyCodes :
          FetchRespond(c, s, Null, ra, b)
    \/ \E c \in Awaited, e \in TransportErrors : FetchFail(c, e)
    \/ \E c \in Awaited : FetchAbort(c)
    \/ \E c \in Awaited : ErrorBody(c)
    \/ \E c \in Awaited : Body(c)
    \/ \E c \in Awaited : Wake(c)
    \/ \E c \in Awaited : Release(c)

\* The pending fetch of the call in slot c settles: a response arrives, the
\* transport fails, or the timer of the attempt aborts it.
FetchSettles(c) ==
    \/ \E s \in Statuses, ra \in RetryAfterHeaders,
          b \in JsonValues \cup {Unparseable} \cup BodyCodes :
          FetchRespond(c, s, Null, ra, b)
    \/ \E e \in TransportErrors : FetchFail(c, e)
    \/ FetchAbort(c)

\* The client in an environment where time passes, every pending fetch and
\* every pending read of a body settles, and every timer that is due fires.
Fairness ==
    /\ WF_vars(Tick)
    /\ \A c \in Awaited :
          /\ WF_vars(FetchSettles(c))
          /\ WF_vars(ErrorBody(c))
          /\ WF_vars(Body(c))
          /\ WF_vars(Wake(c))

SpecLive == Init /\ [][NextLive]_vars /\ Fairness

\* The client with subscribers on its event bus.  The requests are the default
\* GETs of the endpoint functions, of one attempt each, answered 200 or 503.
NextEventBus ==
    \/ Tick
    \/ \E h \in 1 .. MaxSubscriptions, t \in Topics, cb \in Callbacks : On(h, t, cb)
    \/ \E h \in 1 .. MaxSubscriptions : Unsubscribe(h)
    \/ \E c \in Awaited, u \in Endpoints : Request(c, "GET", u, TRUE, 1)
    \/ \E c \in Awaited, s \in {200, 503}, rem \in RemainingHeaders, b \in {"{...}", Null} :
          FetchRespond(c, s, rem, Null, b)
    \/ \E c \in Awaited : ErrorBody(c)
    \/ \E c \in Awaited : Body(c)
    \/ \E c \in Awaited : Release(c)

SpecEventBus == Init /\ [][NextEventBus]_vars

\* The options the application passes to configure(): a new ceiling.
ConfigureOptions ==
    {[rateLimitPerFiveMinutes |-> n] : n \in 1 .. RateLimitCeiling + 1}

\* The limiter of an application that reconfigures the client and reads its
\* status at any time, under a server whose X-RateLimit-Remaining may exceed the
\* local ceiling.  The requests are GETs of one attempt each, without the cache.
NextConfigure ==
    \/ Tick
    \/ \E o \in ConfigureOptions : Configure(o)
    \/ \E c \in Awaited, u \in Endpoints : Request(c, "GET", u, FALSE, 1)
    \/ \E c \in Awaited, s \in {200, 503}, rem \in RemainingHeaders \cup {"5"},
          b \in {"{...}", Null} :
          FetchRespond(c, s, rem, Null, b)
    \/ \E c \in Awaited : ErrorBody(c)
    \/ \E c \in Awaited : Body(c)
    \/ \E c \in Awaited : Release(c)
    \/ GetRateLimitStatus

SpecConfigure == Init /\ [][NextConfigure]_vars

\* The client under callers that do not await one request() before they issue
\* the next: two invocations are in flight at once.  The requests are GETs of
\* one attempt each, with or without the cache, answered 200 or 503.
NextConcurrent ==
    \/ Tick
    \/ \E c \in Calls, u \in Endpoints, useCache \in BOOLEAN :
          Request(c, "GET", u, useCache, 1)
    \/ \E c \in Calls, s \in {200, 503}, b \in {"{...}", Null} :
          FetchRespond(c, s, Null, Null, b)
    \/ \E c \in Calls : FetchAbort(c)
    \/ \E c \in Calls : ErrorBody(c)
    \/ \E c \in Calls : Body(c)
    \/ \E c \in Calls : Release(c)

SpecConcurrent == Init /\ [][NextConcurrent]_vars

---------------------------------------------------------------------------
\* The components.

\* refresh() of a widget is called: by its interval timer, by the Retry button,
\* or by the application.
Refresh(w) ==
    /\ widgets' = [widgets EXCEPT ![w] =
            IF @.isLoading THEN RefreshSkipped(@) ELSE RefreshStart(@)]
    /\ UNCHANGED <<apiVars, roomSelector>>

\* `await this.options.fetchFn()` of the StatCard resolves / rejects.
StatCardFetchResolves(result) ==
    /\ widgets.statCard.fetching > 0
    /\ widgets' = [widgets EXCEPT !.statCard = StatCardFetched(@, result)]
    /\ UNCHANGED <<apiVars, roomSelector>>

StatCardFetchRejects ==
    /\ widgets.statCard.fetching > 0
    /\ widgets' = [widgets EXCEPT !.statCard = RefreshFailed(@, RefreshError)]
    /\ UNCHANGED <<apiVars, roomSelector>>

\* `await MyPrizeAPI.bets.getBig(params)` of the BigWins resolves / rejects.
BigWinsFetchResolves(wins) ==
    /\ widgets.bigWins.fetching > 0
    /\ widgets' = [widgets EXCEPT !.bigWins = BigWinsFetched(@, wins)]
    /\ UNCHANGED <<apiVars, roomSelector>>

BigWinsFetchRejects ==
    /\ widgets.bigWins.fetching > 0
    /\ widgets' = [widgets EXCEPT !.bigWins = RefreshFailed(@, RefreshError)]
    /\ UNCHANGED <<apiVars, roomSelector>>

NextWidgets ==
    \/ \E w \in WidgetNames : Refresh(w)
    \/ \E result \in StatValues : StatCardFetchResolves(result)
    \/ StatCardFetchRejects
    \/ \E wins \in WinLists : BigWinsFetchResolves(wins)
    \/ BigWinsFetchRejects

SpecWidgets == Init /\ [][NextWidgets]_vars

\* selectRoomBySlug(slug) is called.
SelectRoomBySlug(slug) ==
    /\ Len(roomSelector.lookups) < MaxLookups
    /\ roomSelector' = LookupStart(roomSelector, slug)
    /\ UNCHANGED <<apiVars, widgets>>

\* The lookup of the i-th selectRoomBySlug() resolves with the room / rejects.
LookupResolves(i) ==
    /\ i \in 1 .. Len(roomSelector.lookups)
    /\ roomSelector.lookups[i].state = "pending"
    /\ roomSelector' = LookupFound(roomSelector, i)
    /\ UNCHANGED <<apiVars, widgets>>

LookupRejects(i) ==
    /\ i \in 1 .. Len(roomSelector.lookups)
    /\ roomSelector.lookups[i].state = "pending"
    /\ roomSelector' = LookupFailed(roomSelector, i)
    /\ UNCHANGED <<apiVars, widgets>>

\* clearRoom() is called.
ClearRoom ==
    /\ roomSelector' = ClearedRoom(roomSelector)
    /\ UNCHANGED <<apiVars, widgets>>

\* subscribe(callback) is called by the one subscriber.
Subscribe ==
    /\ ~roomSelector.subscribed
    /\ roomSelector' = SubscribedTo(roomSelector)
    /\ UNCHANGED <<apiVars, widgets>>

NextRoomSelector ==
    \/ \E slug \in SlugInputs : SelectRoomBySlug(slug)
    \/ \E i \in 1 .. MaxLookups : LookupResolves(i)
    \/ \E i \in 1 .. MaxLookups : LookupRejects(i)
    \/ ClearRoom
    \/ Subscribe

SpecRoomSelector == Init /\ [][NextRoomSelector]_vars

---------------------------------------------------------------------------
\* Vocabulary of the properties.

\* request() is called in slot c in this step.
RequestStep(c) == calls[c].pc = "idle" /\ calls'[c].pc # "idle"

\* The cache signature of a call, and whether the call may use the cache.
KeyOf(cl) == CacheKey(cl.method, cl.url)
Cacheable(cl) == cl.useCache /\ cl.method = "GET"

\* The call returned a value of the cache / was refused by the rate limiter.
ServedFromCache(cl) == cl.pc = "returned" /\ cl.events = <<"request:cached">>

\* The number of times e occurs in seq.
Count(seq, e) == Cardinality({i \in 1 .. Len(seq) : seq[i] = e})

\* An unexpired entry exists for the signature of the call made in this step.
UnexpiredEntry(c) ==
    /\ Cacheable(calls'[c])
    /\ cache[KeyOf(calls'[c])] # NoEntry
    /\ now <= cache[KeyOf(calls'[c])].expires

\* An entry exists for the signature of the call made in this step, past its expiry.
ExpiredEntry(c) ==
    /\ Cacheable(calls'[c])
    /\ cache[KeyOf(calls'[c])] # NoEntry
    /\ now > cache[KeyOf(calls'[c])].expires

\* checkRateLimit() answers true / false to a request() made now.
WouldAdmit == CheckRateLimit(CheckRateLimitState(rateLimitState, now, config), config)

\* request() is called in this step, misses the cache and is refused admission.
AdmissionRejected(c) ==
    /\ RequestStep(c)
    /\ ~(Cacheable(calls'[c]) /\ CacheHit(GetFromCache(cache, KeyOf(calls'[c]), now)))
    /\ ~WouldAdmit

\* request() is called in this step, misses the cache and passes admission.
Admitted(c) ==
    /\ RequestStep(c)
    /\ ~(Cacheable(calls'[c]) /\ CacheHit(GetFromCache(cache, KeyOf(calls'[c]), now)))
    /\ WouldAdmit

\* request() is called in this step and misses the cache.
Missed(c) ==
    /\ RequestStep(c)
    /\ ~(Cacheable(calls'[c]) /\ CacheHit(GetFromCache(cache, KeyOf(calls'[c]), now)))

\* The number of timestamps in the current window: none when the window that
\* began at windowStart is over, else those less than five minutes old.
InCurrentWindow ==
    IF now - rateLimitState.windowStart > FiveMinutes THEN 0
    ELSE Cardinality({i \in 1 .. Len(rateLimitState.requests) :
                         now - rateLimitState.requests[i] < FiveMinutes})

\* Every attempt of the call so far was answered, with a 5xx status.
All5xx(cl) == cl.lastOutcome # NoOutcome /\ cl.only5xx

\* The topic on which the request() in slot c emits an event in this step, or Null.
EmittedTopic(c) ==
    IF Len(calls'[c].events) = Len(calls[c].events) + 1
    THEN TopicOf(calls'[c].events[Len(calls'[c].events)])
    ELSE Null

\* The callback is in the Set.
Subscribed(set, callback) == \E i \in 1 .. Len(set) : set[i] = callback

\* The subscription made by the h-th on(): made, and its function not called yet.
Live(u) == u # NoUnsubscriber /\ ~u.called

---------------------------------------------------------------------------
\* C1: the number of requests admitted within any trailing 5-minute interval
\* never exceeds the configured ceiling rateLimitPerFiveMinutes.  (admitLog holds
\* the admissions of the interval that ends now.)
C1_WindowWithinCeiling == Len(admitLog) <= config.rateLimitPerFiveMinutes

\* C2: a cacheable GET made within the TTL of the last successful fetch of its
\* signature issues no network call, whatever the body that was fetched; one
\* made after the TTL has expired issues one new network call.
C2_OneFetchPerTtl ==
    [][\A c \in Calls :
         /\ (RequestStep(c) /\ UnexpiredEntry(c))
               => calls'[c].netCalls = 0
         /\ (RequestStep(c) /\ ExpiredEntry(c) /\ WouldAdmit /\ calls'[c].retries >= 1)
               => (calls'[c].netCalls = 1 /\ calls'[c].pc = "fetch")
      ]_vars

\* C3: request() returns a value of the cache only from an entry whose expiry is
\* not earlier than the time of the call, and a lookup that finds an expired
\* entry is a miss.
C3_NeverServesExpiredEntry ==
    [][\A c \in Calls : RequestStep(c) =>
         LET cl == calls'[c]
             e == cache[KeyOf(cl)]
         IN /\ ServedFromCache(cl)
                 => (Cacheable(cl) /\ e # NoEntry /\ e.expires >= now /\ cl.value = e.data)
            /\ ExpiredEntry(c) => ~ServedFromCache(cl)
      ]_vars

\* C3, witness: a value is served from an entry at the very tick of its expiry.
C3_Witness ==
    \E c \in Calls :
        /\ ServedFromCache(calls[c])
        /\ cache[KeyOf(calls[c])].expires = now

\* C4: with retries = n >= 1 and every response a 5xx, an admitted request()
\* makes exactly n network attempts, then fails with the error of the last
\* attempt, and emits exactly one `error` event.
C4_ExactlyNAttemptsOn5xx ==
    /\ [](\A c \in Calls :
            LET cl == calls[c] IN
            All5xx(cl) =>
               IF cl.pc \in Settled
               THEN /\ cl.pc = "threw"
                    /\ cl.netCalls = cl.retries
                    /\ cl.attempt = cl.retries
                    /\ Count(cl.events, "error") = 1
               ELSE /\ cl.netCalls <= cl.retries
                    /\ Count(cl.events, "error") = 0)
    /\ [][\A c \in Calls :
            (calls[c].pc = "errbody" /\ calls[c].status >= 500 /\ calls'[c].pc = "threw")
               => calls'[c].errCode =
                     (IF calls[c].body # Null THEN calls[c].body
                      ELSE HttpCode(calls[c].status))
       ]_vars

\* C4, witness: a call with the largest retries option has failed after as many
\* 503 responses.
C4_Witness ==
    \E c \in Calls :
        /\ calls[c].pc = "threw"
        /\ calls[c].retries = MaxRetries
        /\ All5xx(calls[c])
        /\ calls[c].netCalls = MaxRetries
        /\ calls[c].errCode = "HTTP_503"

C6_RetryAfterIsHonoured ==
    [][\A c \in Calls :
         LET cl == calls[c]
             cl2 == calls'[c]
         IN /\ (/\ cl.pc = "errbody" /\ cl.status = 429
                /\ cl.retryAfter # Null /\ cl.attempt < cl.retries
                /\ cl2 # cl)
                  => /\ cl2.pc = "sleep"
                     /\ \A s \in 0 .. 9 :
                           cl.retryAfter = ToString(s) => cl2.timer = now + s * Second
                     /\ cl2.netCalls = cl.netCalls
                     /\ cl2.events = cl.events
            /\ (cl.pc = "sleep" /\ cl2 # cl)
                  => /\ now >= cl.timer
                     /\ cl2.pc = "fetch"
                     /\ cl2.netCalls = cl.netCalls + 1
            /\ (cl.pc = "body" /\ cl.body \in JsonValues /\ cl2 # cl)
                  => /\ cl2.pc = "returned"
                     /\ cl2.value = cl.body
                     /\ cl2.netCalls = cl.netCalls
                     /\ Count(cl2.events, "error") = 0
      ]_vars

\* C6, witness: a 429 with Retry-After: 1, a wait of one second, a second
\* attempt answered 200: the call has returned.
C6_Witness ==
    \E c \in Calls :
        /\ calls[c].pc = "returned"
        /\ calls[c].lastOutcome = 200
        /\ calls[c].lastDelay = Second
        /\ calls[c].netCalls = 2
        /\ calls[c].value = "{...}"
        /\ now >= Second

\* C7: getRateLimitStatus() adds no admission to the rate window, and a second
\* call made at once, with nothing in between, returns the used and remaining
\* values of the first.
C7_StatusReadsSpendNothing ==
    /\ [](statusResult # NoStatus =>
            LET again == GetRateLimitStatusResult(rateLimitState, now, config)
            IN /\ again.used = statusResult.used
               /\ again.remaining = statusResult.remaining)
    /\ [][statusResult' # NoStatus =>
            /\ Len(rateLimitState'.requests) <= Len(rateLimitState.requests)
            /\ \A i \in 1 .. Len(rateLimitState'.requests) :
                  \E j \in 1 .. Len(rateLimitState.requests) :
                      rateLimitState'.requests[i] = rateLimitState.requests[j]
            /\ admitLog' = admitLog
       ]_vars

\* C7, witness: a status has been read while quota was spent.
C7_Witness ==
    /\ statusResult # NoStatus
    /\ statusResult.used > 0
    /\ Len(rateLimitState.requests) > 0

\* C8, as claimed: a request() refused admission emits one `rateLimit` event and
\* fails with RATE_LIMIT_EXCEEDED and a retryAfter duration, with no network
\* call, no addition to the rate window and no change of the cache.
C8_RejectionLeavesCacheAlone ==
    [][\A c \in Calls : AdmissionRejected(c) =>
         /\ calls'[c].pc = "threw"
         /\ calls'[c].errCode = "RATE_LIMIT_EXCEEDED"
         /\ calls'[c].errRetryAfter >= 0
         /\ calls'[c].events = <<"rateLimit">>
         /\ calls'[c].netCalls = 0
         /\ Len(rateLimitState'.requests) <= Len(rateLimitState.requests)
         /\ admitLog' = admitLog
         /\ cache' = cache
      ]_vars

\* C8, amended: the same, but for the cache: no entry is added or overwritten,
\* and the only change is the eviction of the expired entry of the signature of
\* the call, by the lookup that precedes admission.
C8_RejectionOnlyEvictsExpired ==
    [][\A c \in Calls : AdmissionRejected(c) =>
         /\ calls'[c].pc = "threw"
         /\ calls'[c].errCode = "RATE_LIMIT_EXCEEDED"
         /\ calls'[c].errRetryAfter >= 0
         /\ calls'[c].errRetryAfter + (now - rateLimitState'.windowStart) = FiveMinutes
         /\ calls'[c].events = <<"rateLimit">>
         /\ calls'[c].netCalls = 0
         /\ Len(rateLimitState'.requests) <= Len(rateLimitState.requests)
         /\ admitLog' = admitLog
         /\ \A k \in CacheKeys :
               \/ cache'[k] = cache[k]
               \/ /\ k = KeyOf(calls'[c])
                  /\ ExpiredEntry(c)
                  /\ cache'[k] = NoEntry
      ]_vars

\* C8, witness: a cacheable GET has been refused by the rate limiter, with time
\* left in the window.
C8_Witness ==
    \E c \in Calls :
        /\ calls[c].pc = "threw"
        /\ calls[c].errCode = "RATE_LIMIT_EXCEEDED"
        /\ calls[c].events = <<"rateLimit">>
        /\ calls[c].errRetryAfter > 0
        /\ Cacheable(calls[c])
        /\ Len(rateLimitState.requests) >= config.rateLimitPerFiveMinutes

\* C9: an attempt cut off by the timer of the attempt ends the call: it fails
\* with code TIMEOUT and no network attempt follows, whichever attempt it was
\* and however many are left.
C9_TimeoutIsTerminal ==
    \A c \in Calls :
        calls[c].lastOutcome = Aborted =>
           /\ calls[c].pc = "threw"
           /\ calls[c].errCode = "TIMEOUT"
           /\ calls[c].netCalls = calls[c].attempt
           /\ Count(calls[c].events, "request") = calls[c].attempt

\* C9, witness: the first of several allowed attempts has timed out and the
\* call has failed.
C9_Witness ==
    \E c \in Calls :
        /\ calls[c].lastOutcome = Aborted
        /\ calls[c].attempt = 1
        /\ calls[c].retries = MaxRetries
        /\ calls[c].pc = "threw"
        /\ calls[c].errCode = "TIMEOUT"

\* C10: a cacheable GET for which an unexpired entry exists emits a `request`
\* event tagged cached: true and returns the cached value, leaves the rate
\* limiter as it is and issues no network call.
C10_HitLeavesLimiterAlone ==
    [][\A c \in Calls : (RequestStep(c) /\ UnexpiredEntry(c)) =>
         /\ calls'[c].pc = "returned"
         /\ calls'[c].events = <<"request:cached">>
         /\ calls'[c].value = cache[KeyOf(calls'[c])].data
         /\ calls'[c].netCalls = 0
         /\ rateLimitState' = rateLimitState
         /\ admitLog' = admitLog
      ]_vars

\* C11: every request() that fails, whatever the kind of the failure, has
\* emitted exactly one `error` event by the time the failure reaches the
\* caller, and a request() that succeeds has emitted none.
C11_EveryFailureEmitsOneError ==
    \A c \in Calls :
        /\ calls[c].pc = "threw" => Count(calls[c].events, "error") = 1
        /\ calls[c].pc = "returned" => Count(calls[c].events, "error") = 0

\* C12: when a subscriber throws during an emission, every subscriber of the
\* topic is still invoked, once and in order, the error is caught and does not
\* reach request(): the call does not end with the subscriber's error.
C12_ThrowingSubscriberIsContained ==
    [][\A c \in Calls : EmittedTopic(c) # Null =>
         LET set == listeners[EmittedTopic(c)] IN
         /\ delivery'.invoked = set
         /\ delivery'.caught =
               Cardinality({i \in 1 .. Len(set) : set[i] \in ThrowingCallbacks})
         /\ ~delivery'.thrown
         /\ calls'[c].errCode # ListenerError
      ]_vars

\* C12, witness: the first subscriber of `request` threw, the second one was
\* invoked all the same, and the request() returned its value.
C12_Witness ==
    \E c \in Calls :
        /\ delivery.invoked = <<"onEventThrowing", "onEvent">>
        /\ delivery.caught = 1
        /\ calls[c].pc = "returned"
        /\ calls[c].value = "{...}"

\* C13: from an on(topic, callback) until the function it returned is called,
\* the callback is invoked exactly once for each event emitted on the topic;
\* once that function has been called (and the callback has not been
\* subscribed to the topic by another on()), it is not invoked any more; and
\* calling the function leaves every other callback subscribed as it was.
C13_SubscribedUntilUnsubscribed ==
    [][/\ \A c \in Calls : EmittedTopic(c) # Null =>
            \A h \in 1 .. MaxSubscriptions :
                LET u == unsubscribers[h] IN
                /\ (Live(u) /\ u.event = EmittedTopic(c))
                      => Count(delivery'.invoked, u.callback) = 1
                /\ (/\ u # NoUnsubscriber /\ u.called /\ u.event = EmittedTopic(c)
                    /\ \A g \in 1 .. MaxSubscriptions \ {h} :
                          ~(/\ unsubscribers[g].event = u.event
                            /\ unsubscribers[g].callback = u.callback))
                      => Count(delivery'.invoked, u.callback) = 0
       /\ \A h \in 1 .. MaxSubscriptions :
            (Live(unsubscribers[h]) /\ unsubscribers'[h].called) =>
                \A t \in Topics, cb \in Callbacks :
                    (t # unsubscribers[h].event \/ cb # unsubscribers[h].callback)
                       => (Subscribed(listeners'[t], cb) <=> Subscribed(listeners[t], cb))
      ]_vars

\* C14: a request() that passes admission adds exactly one timestamp to the
\* rate window, at its admission; no later turn of it (an attempt, a retry, a
\* return, a failure) adds or removes one.
C14_AdmissionCountsOnce ==
    [][\A c \in Calls :
         /\ Admitted(c) =>
               /\ rateLimitState'.requests =
                     Append(CheckRateLimitState(rateLimitState, now, config).requests, now)
               /\ admitLog' = Append(admitLog, now)
         /\ (calls[c].pc # "idle" /\ calls'[c] # calls[c]) =>
               /\ rateLimitState'.requests = rateLimitState.requests
               /\ admitLog' = admitLog
      ]_vars

\* C14, witness: a call has failed after as many attempts as it may make, and
\* the rate window holds the one timestamp of its admission.
C14_Witness ==
    \E c \in Calls :
        /\ calls[c].pc = "threw"
        /\ calls[c].netCalls = MaxRetries
        /\ calls[c].netCalls >= 2
        /\ Len(rateLimitState.requests) = 1
        /\ admitLog = rateLimitState.requests

\* C15: once a response has carried X-RateLimit-Remaining = r, and as long as
\* the window has not been reset and no newer value has arrived,
\* getRateLimitStatus() reports remaining = r and used = limit - r, whatever
\* requests have been admitted since.
C15_ServerRemainingIsKept ==
    (serverRemaining # NoServerValue /\ ~WindowElapsed(rateLimitState, now)) =>
        LET status == GetRateLimitStatusResult(rateLimitState, now, config) IN
        /\ status.remaining = serverRemaining
        /\ status.used = status.limit - serverRemaining

\* C16: a request() whose method is not GET, or whose cache option is false,
\* never returns a value of the cache, and no turn of it, whatever its outcome,
\* creates, overwrites or removes a cache entry.
C16_BypassLeavesCacheAlone ==
    [][\A c \in Calls :
         /\ (RequestStep(c) /\ ~Cacheable(calls'[c])) =>
               /\ cache' = cache
               /\ ~ServedFromCache(calls'[c])
               /\ Count(calls'[c].events, "request:cached") = 0
         /\ (calls[c].pc # "idle" /\ ~Cacheable(calls[c]) /\ calls'[c] # calls[c]) =>
               /\ cache' = cache
               /\ calls'[c].pc = "returned" =>
                     (calls[c].pc = "body" /\ calls'[c].value = calls[c].body)
      ]_vars

\* C16, witness: a POST has returned the body of its response while the GET of
\* the same endpoint has an entry in the cache, and nothing is cached for the POST.
C16_Witness ==
    \E c \in Calls :
        /\ calls[c].method = "POST"
        /\ calls[c].useCache
        /\ calls[c].pc = "returned"
        /\ calls[c].value = "{...}"
        /\ cache[CacheKey("POST", calls[c].url)] = NoEntry
        /\ cache[CacheKey("GET", calls[c].url)] # NoEntry

\* C17: the first cacheable GET of a signature made after a clearCache() is not
\* served from the cache, whatever was in flight when clearCache() was called;
\* when it is admitted with an attempt to make, it issues a network call.
C17_FirstGetAfterClearFetches ==
    [][\A c \in Calls :
         (/\ RequestStep(c)
          /\ Cacheable(calls'[c])
          /\ KeyOf(calls'[c]) \in cleared) =>
              /\ ~ServedFromCache(calls'[c])
              /\ (WouldAdmit /\ calls'[c].retries >= 1) => calls'[c].netCalls = 1
      ]_vars

\* C18: a request() that reaches admission is admitted if and only if the
\* number of timestamps in the current window is strictly less than the
\* ceiling: at exactly the ceiling it is rejected, at one less it is admitted.
C18_AdmittedIffBelowCeiling ==
    [][\A c \in Calls : Missed(c) =>
         LET rejected == /\ calls'[c].pc = "threw"
                         /\ calls'[c].errCode = "RATE_LIMIT_EXCEEDED"
             admitted == /\ admitLog' = Append(admitLog, now)
                         /\ calls'[c].errCode # "RATE_LIMIT_EXCEEDED"
         IN /\ InCurrentWindow <= config.rateLimitPerFiveMinutes
            /\ InCurrentWindow = config.rateLimitPerFiveMinutes => (rejected /\ ~admitted)
            /\ InCurrentWindow < config.rateLimitPerFiveMinutes => (admitted /\ ~rejected)
      ]_vars

\* C18, witness: a request() has been rejected with exactly as many timestamps
\* in the window as the ceiling, after the admission that filled the window.
C18_Witness ==
    \E c \in Calls :
        /\ calls[c].pc = "threw"
        /\ calls[c].errCode = "RATE_LIMIT_EXCEEDED"
        /\ InCurrentWindow = config.rateLimitPerFiveMinutes
        /\ Len(admitLog) = config.rateLimitPerFiveMinutes
        /\ rateLimitState.requests = admitLog

\* C19: when a 429 response that is retried carries no Retry-After header, the
\* delay before the next attempt is config.retryDelay times the number of the
\* attempt that has just failed.
C19_BackoffWithoutRetryAfter ==
    [][\A c \in Calls :
         (/\ calls[c].pc = "errbody"
          /\ calls[c].status = 429
          /\ calls[c].retryAfter = Null
          /\ calls[c].attempt < calls[c].retries
          /\ calls'[c] # calls[c]) =>
              /\ calls'[c].pc = "sleep"
              /\ calls'[c].lastDelay = config.retryDelay * calls[c].attempt
              /\ calls'[c].timer = now + config.retryDelay * calls[c].attempt
      ]_vars

\* C20: an attempt that fails with a 5xx status or with a transport failure code
\* is retried, while attempts remain, after config.retryDelay times the number
\* of the attempt; an attempt that fails with a 4xx status other than 429, with
\* a timeout or with an unparseable 2xx body is never followed by another one.
C20_OnlyTransientKindsAreRetried ==
    [][\A c \in Calls :
         LET cl == calls[c]
             cl2 == calls'[c]
             backoff == /\ cl2.pc = "sleep"
                        /\ cl2.lastDelay = config.retryDelay * cl.attempt
                        /\ cl2.timer = now + config.retryDelay * cl.attempt
             final == cl2.pc = "threw" /\ cl2.netCalls = cl.netCalls
         IN /\ (/\ cl.pc = "errbody" /\ cl.status >= 500
                /\ cl.attempt < cl.retries /\ cl2 # cl) => backoff
            /\ (/\ cl.pc = "fetch" /\ cl2.lastOutcome = TransportFailed
                /\ cl2.pc = "threw"
                /\ cl.attempt < cl.retries /\ cl2 # cl)
                  => cl2.errCode \notin {"ECONNRESET", "ETIMEDOUT", "ENOTFOUND"}
            /\ (/\ cl.pc = "fetch" /\ cl2.lastOutcome = TransportFailed
                /\ cl2.pc = "sleep") => backoff
            /\ (/\ cl.pc = "errbody" /\ cl.status \in 400 .. 499 /\ cl.status # 429
                /\ cl2 # cl) => final
            /\ (cl.pc = "fetch" /\ cl2.lastOutcome = Aborted /\ cl2 # cl) => final
            /\ (cl.pc = "body" /\ cl.body = Unparseable /\ cl2 # cl) => final
      ]_vars

\* C21: a cache entry is written only in the turn in which a GET with caching
\* enabled returns the parsed body of a 2xx response, and the value stored is
\* the value returned; a request() that fails writes no entry, in the turn in
\* which it fails or before.
C21_OnlySuccessIsCached ==
    [][/\ \A k \in CacheKeys :
            (cache'[k] # cache[k] /\ cache'[k] # NoEntry) =>
                \E c \in Calls :
                    /\ calls[c].pc = "body"
                    /\ calls[c].status \in 200 .. 299
                    /\ calls[c].body \in JsonValues
                    /\ calls'[c].pc = "returned"
                    /\ Cacheable(calls'[c])
                    /\ KeyOf(calls'[c]) = k
                    /\ cache'[k].data = calls'[c].value
                    /\ cache'[k].expires = now + calls'[c].cacheDuration
       /\ \A c \in Calls :
            (calls[c].pc \notin {"idle", "returned"} /\ calls'[c].pc # "returned") =>
                \A k \in CacheKeys : cache'[k] = cache[k] \/ cache'[k] = NoEntry
      ]_vars

\* C21, witness: a cacheable GET has made two attempts, the second one
\* answered 200, and has returned the value that is now in the cache.
C21_Witness ==
    \E c \in Calls :
        /\ calls[c].pc = "returned"
        /\ Cacheable(calls[c])
        /\ calls[c].netCalls = 2
        /\ calls[c].value = "{...}"
        /\ cache[KeyOf(calls[c])] =
              [data |-> calls[c].value, expires |-> now + calls[c].cacheDuration]

\* The units of quota left in the current window.
UnitsLeft == config.rateLimitPerFiveMinutes - InCurrentWindow

\* request() is called in this step, misses the cache and is not refused.
PassedAdmission(c) == Missed(c) /\ calls'[c].errCode # "RATE_LIMIT_EXCEEDED"

\* C22: under every interleaving of the turns of overlapping request() calls,
\* a call passes admission only when a unit of quota is left in the window and
\* takes that unit in the same turn, so that the admissions made since the
\* window began never outnumber the ceiling.
C22_AdmissionIsAtomic ==
    /\ [][\A c \in Calls : PassedAdmission(c) =>
            (UnitsLeft >= 1 /\ UnitsLeft' = UnitsLeft - 1)]_vars
    /\ [](Cardinality({i \in 1 .. Len(admitLog) :
                          admitLog[i] >= rateLimitState.windowStart})
             <= config.rateLimitPerFiveMinutes)

\* C22, witness: while a call that took the last unit of the window awaits its
\* fetch, a second call, made before the first has settled, is refused.
C22_Witness ==
    \E c, d \in Calls :
        /\ c # d
        /\ calls[c].pc = "fetch"
        /\ calls[d].pc = "threw"
        /\ calls[d].errCode = "RATE_LIMIT_EXCEEDED"
        /\ UnitsLeft = 0

\* The call awaits a fetch, the body of a response, or a retry delay.
Awaiting(cl) == cl.pc \in {"fetch", "body", "errbody", "sleep"}

\* The retry delay the call awaits ends after the time the clock covers.
DelayOutlastsClock(cl) == cl.pc = "sleep" /\ cl.timer > MaxTime

\* C23: when every attempt is answered or aborted by its timer and every retry
\* delay elapses, a request() that has passed admission settles: it returns or
\* throws, and it has started at most `retries` fetches at any time.  (A delay
\* that ends after MaxTime does not elapse within the clock of the model.)
C23_AdmittedCallSettles ==
    /\ \A c \in Calls :
          Awaiting(calls[c]) ~> (calls[c].pc \in Settled \/ DelayOutlastsClock(calls[c]))
    /\ [](\A c \in Calls : calls[c].netCalls <= calls[c].retries)

\* C23, witness: a call has settled after a retry: its first attempt failed, the
\* delay elapsed, and its last attempt, the `retries`-th, has ended.
C23_Witness ==
    \E c \in Calls :
        /\ calls[c].pc \in Settled
        /\ calls[c].retries = MaxRetries
        /\ calls[c].netCalls = calls[c].retries
        /\ calls[c].netCalls >= 2
        /\ calls[c].lastDelay >= 1
        /\ now <= MaxTime

\* C24: a cacheable GET issued while another cacheable GET of the same
\* signature is still in flight starts no fetch and spends no quota.
C24_OverlappingGetsAreDeduplicated ==
    [][\A c, d \in Calls :
          (/\ c # d
           /\ RequestStep(c)
           /\ Cacheable(calls'[c])
           /\ Awaiting(calls[d])
           /\ Cacheable(calls[d])
           /\ KeyOf(calls[d]) = KeyOf(calls'[c]))
          => (/\ calls'[c].netCalls = 0
              /\ admitLog' = admitLog
              /\ rateLimitState'.requests = rateLimitState.requests)]_vars

\* C25: whatever the value of `retries`, a call that has passed admission and
\* has settled has started at least one fetch, and the error it has thrown, the
\* one its `error` event carries, is not undefined.
C25_FailureIsADefinedError ==
    \A c \in Calls :
        (/\ calls[c].pc \in Settled
         /\ ~ServedFromCache(calls[c])
         /\ calls[c].errCode # "RATE_LIMIT_EXCEEDED")
        => (/\ calls[c].netCalls >= 1
            /\ calls[c].pc = "threw" => calls[c].errCode # Undefined)

\* C26: whatever the requests, the configure() calls and the values of
\* X-RateLimit-Remaining that came before, the object getRateLimitStatus()
\* returns has used + remaining = limit, 0 <= remaining <= limit and
\* 0 <= percentage <= 100, and, when no X-RateLimit-Remaining has arrived in the
\* window, `used` is the number of admissions in the window.
C26_StatusIsConsistent ==
    statusResult # NoStatus =>
        /\ statusResult.used + statusResult.remaining = statusResult.limit
        /\ 0 <= statusResult.remaining
        /\ statusResult.remaining <= statusResult.limit
        /\ 0 <= statusResult.used * 100
        /\ statusResult.used * 100 <= 100 * statusResult.limit
        /\ serverRemaining = NoServerValue =>
              statusResult.used = Len(rateLimitState.requests)

\* C27: a request() that misses the cache, made right after a
\* getRateLimitStatus(), passes admission exactly when the status reported
\* remaining > 0.
C27_AdmissionAgreesWithStatus ==
    [][\A c \in Calls :
          (Missed(c) /\ statusResult # NoStatus) =>
              (PassedAdmission(c) <=> statusResult.remaining > 0)]_vars

\* C28: when a request() was refused by the rate limiter and the next
\* request() that misses the cache is made exactly retryAfter later, with no
\* request() in between, that request passes admission.
C28_RetryAfterIsSufficient ==
    [][\A c \in Calls :
          (Missed(c) /\ retryAt = now) => PassedAdmission(c)]_vars

\* C29: a widget has at most one fetch in flight, its loading flag is set
\* exactly while that fetch is pending (so a refresh() called meanwhile starts
\* no fetch, and the flag is cleared when the fetch settles, also with an
\* error), and a refresh() called on a widget that is not loading starts a fetch
\* whether or not its latest refresh failed.
C29_OneFetchPerWidget ==
    /\ [](\A w \in WidgetNames :
            /\ widgets[w].fetching <= 1
            /\ widgets[w].isLoading <=> widgets[w].fetching = 1)
    /\ [][\A w \in WidgetNames :
            /\ (widgets[w].fetching = 1
                   /\ widgets'[w].lastRefresh # widgets[w].lastRefresh)
                 => (/\ widgets'[w].lastRefresh = "skipped"
                     /\ widgets'[w].fetching = 1)
            /\ widgets'[w].fetching < widgets[w].fetching => ~widgets'[w].isLoading
            /\ (widgets[w].fetching = 0 /\ widgets'[w] # widgets[w])
                 => widgets'[w].fetching = 1]_vars

\* C29, witness: the latest refresh of a widget has failed, a later refresh()
\* has started a fetch, and a refresh() called while that fetch is pending has
\* returned without fetching.
C29_Witness ==
    \E w \in WidgetNames :
        /\ widgets[w].hasError
        /\ widgets[w].isLoading
        /\ widgets[w].fetching = 1
        /\ widgets[w].lastRefresh = "skipped"

\* Every lookup of the room selector has settled.
AllLookupsSettled ==
    \A i \in 1 .. Len(roomSelector.lookups) : roomSelector.lookups[i].state # "pending"

\* C30: once every lookup has settled, the current room, the stored selection
\* and the room last passed to the subscriber are those of the latest user
\* action: no room after clearRoom(), the room of the latest selectRoomBySlug()
\* when its lookup found the room.
C30_LatestActionWins ==
    LET rs == roomSelector
        target == IF rs.lastAction.kind = "select"
                  THEN rs.lookups[rs.lastAction.lookup].slug ELSE Null
        decided == \/ rs.lastAction.kind = "clear"
                   \/ /\ rs.lastAction.kind = "select"
                      /\ rs.lookups[rs.lastAction.lookup].state = "found"
    IN (AllLookupsSettled /\ decided) =>
          /\ rs.currentRoom = target
          /\ rs.stored = target
          /\ rs.delivered \in {target, NotDelivered}

=============================================================================
